---- MODULE Spec2Model ----
(***************************************************************************)
(* Face-recognition attendance system.                                     *)
(*                                                                         *)
(* The model covers the Streamlit application (app.py): the mode flags     *)
(* kept in st.session_state, the sidebar buttons, the attendance decision  *)
(* loop with its capture device, the gallery matcher                       *)
(* (Recognizer.compare over DBManager.fetch_embeddings_data) and the       *)
(* gallery synchronisation (call_api.handle_data_synced).                  *)
(*                                                                         *)
(* Similarities are cosine similarities scaled by 100 (0.45 is 45).        *)
(* Python strings are sequences of tokens; "@" is a token of its own, so   *)
(* str.split("@") is computed on the sequence.                             *)
(***************************************************************************)
EXTENDS Integers, Sequences, FiniteSets, TLC

VARIABLES
    stop,              \* st.session_state.stop
    action,            \* st.session_state.action
    pc,                \* position of the script run: "idle" | "loop"
    cap,               \* the cv2.VideoCapture of the latest session
    frame_count,       \* app.py main: frame_count
    email,             \* app.py main: email, the latest return of handle_recognition_detection
    recognized_name,   \* app.py main: recognized_name
    recognized_email,  \* app.py main: recognized_email
    outcome,           \* how the latest decision loop ended
    exc,               \* the exception that ended the latest script run
    msg,               \* the st.error / st.success message of the latest script run
    posts,             \* payloads handed to post_attendance by the latest script run
    all_unknown,       \* history: every tracked frame of the session gave the name "Unknown"
    started_after,     \* history: how the script run before the session start ended,
                       \* kept until the session reads its first frame
    users,             \* the users table
    next_id,           \* the SERIAL sequence of users.id
    matcher,           \* one call of Recognizer.compare: its inputs, locals and return
    tform,             \* one SimilarityTransform: the points given to it, params, results
    gui,               \* gui_optimize.py: cap, pending timers, worker threads, canvas
    test               \* test.py: its globals, the pending Tk timers and the clock

vars == <<stop, action, pc, cap, frame_count, email, recognized_name,
          recognized_email, outcome, exc, msg, posts, all_unknown, started_after,
          users, next_id, matcher, tform, gui, test>>

(* the variables of app.py *)
app_vars == <<stop, action, pc, cap, frame_count, email, recognized_name,
              recognized_email, outcome, exc, msg, posts, all_unknown, started_after,
              users, next_id>>

----------------------------------------------------------------------------
(* Bounds of the model *)

MaxFrames == 53       \* frames one session may read in the model
MaxUsers == 2         \* employees one synchronisation may deliver
MaxId == 2            \* last users.id the model hands out

----------------------------------------------------------------------------
(* Program constants *)

THRESHOLD == 45
MIN_SIMILARITY_DIFFERENCE == 10
FIRST_TRACKED_COUNT == 35
ACCEPT_COUNT == 40
TIMEOUT_COUNT == 50

(* The spec's parameters, in frame indices that start at 0: the frames read
   before the first tracked one are the warm-up *)
WARMUP_FRAMES == FIRST_TRACKED_COUNT - 1
ACCEPT_CHECK_FRAME == WARMUP_FRAMES + 6
TIMEOUT_FRAME == WARMUP_FRAMES + 16

----------------------------------------------------------------------------
(* Values *)

None == 0                     \* None where an id is expected; users.id starts at 1
Unbound == <<"<unbound>">>    \* the value of a local name that has not been assigned
Unknown == <<"Unknown">>      \* the string "Unknown"
EmptyStr == <<>>              \* the string ""

Emails == { <<"an", "@", "corp">>, <<"binh", "@", "corp">>, <<"Unknown", "@", "corp">> }

SimVals == {20, 48, 50, 80}

Min(S) == CHOOSE x \in S : \A y \in S : x <= y

Raise(e) == [exc |-> e, val |-> <<>>]
Return(v) == [exc |-> "none", val |-> v]

(* str.split("@")[0] *)
SplitAt0(s) ==
    LET at == {i \in 1..Len(s) : s[i] = "@"}
    IN  IF at = {} THEN s ELSE SubSeq(s, 1, Min(at) - 1)

----------------------------------------------------------------------------
(* Gallery: the users table and the matcher *)

(* users.embedding: NULL, an empty byte string, or the bytes of a vector.  Of
   a vector the matcher needs two things: whether its norm is 0, and the dot
   product of its normalisation with the normalised probe (x100) *)
NullEmbedding == [kind |-> "null"]
EmptyEmbedding == [kind |-> "empty"]
Vec(zero, dot) == [kind |-> "vec", zero |-> zero, dot |-> dot]

Row(id, username) == [id |-> id, username |-> username, embedding |-> Vec(FALSE, 0)]

(* DBManager.fetch_embeddings_data, line 28: the rows that hold an embedding *)
HasEmbedding(u) == u.embedding.kind \notin {"null", "empty"}

(* a variant of fetch_embeddings_data that lists every user in embedding_dict *)
fetch_embeddings_data_all(table) ==
    [i \in 1..Len(table) |-> <<table[i].id, table[i].username>>]

(* DBManager.fetch_embeddings_data: the [id, username] of every row that
   holds an embedding, in table order; the embeddings array has the same
   rows *)
fetch_embeddings_data(table) ==
    LET kept == SelectSeq(table, HasEmbedding)
    IN  [i \in 1..Len(kept) |-> <<kept[i].id, kept[i].username>>]

(* DBManager.fetch_embeddings_data: the embeddings array, lines 30-32 *)
fetch_embeddings(table) ==
    LET kept == SelectSeq(table, HasEmbedding)
    IN  [i \in 1..Len(kept) |-> kept[i].embedding]

(* the float nan, kept apart from every similarity; np.argmax takes the
   first nan for the maximum, and every comparison with it is false *)
NaN == 999

(* Recognizer.cosine_similarity: x / 0 is a vector of nan, and so is the
   dot product with it *)
cosine_similarity(x, y) == IF x.zero \/ y.zero THEN NaN ELSE y.dot

(* np.argmax: the first index of the maximum *)
argmax(s) == Min({i \in 1..Len(s) : \A j \in 1..Len(s) : s[j] <= s[i]})

(* sorted(): ascending insertion sort *)
RECURSIVE sorted(_)
sorted(s) ==
    IF Len(s) <= 1 THEN s
    ELSE LET rest == sorted(Tail(s))
             x == Head(s)
             k == Cardinality({i \in 1..Len(rest) : rest[i] < x})
         IN  SubSeq(rest, 1, k) \o <<x>> \o SubSeq(rest, k + 1, Len(rest))

(* line 63: the similarity at the argmax *)
max_similarity(similarities) == similarities[argmax(similarities)]

(* a variant of lines 65-67 that takes the runner-up among the distinct values *)
second_max_distinct(similarities) ==
    LET below == {i \in 1..Len(similarities) :
                     similarities[i] < max_similarity(similarities)}
    IN  IF below = {} THEN 0
        ELSE CHOOSE x \in {similarities[i] : i \in below} :
                 \A i \in below : similarities[i] <= x

(* lines 65-67: 0, or with two entries and more the second from the top of
   the sorted list *)
second_max_similarity(similarities) ==
    IF Len(similarities) >= 2
    THEN sorted(similarities)[Len(similarities) - 1]
    ELSE 0

(* a variant of lines 69-70 whose comparisons are not strict *)
accepts_nonstrict(best, second, threshold, min_difference) ==
    best >= threshold /\ (best - second) >= min_difference

(* a variant of lines 69-70 without the threshold test *)
accepts_margin_only(best, second, threshold, min_difference) ==
    (best - second) > min_difference

(* lines 69-70, the test of the if *)
accepts(best, second, threshold, min_difference) ==
    /\ best # NaN /\ second # NaN
    /\ best > threshold /\ (best - second) > min_difference

(* a variant of compare that returns the similarity and the margin as well *)
compare_four_fields(similarities, embedding_dict) ==
    IF Len(similarities) = 0 THEN Raise("ValueError")
    ELSE LET best == max_similarity(similarities)
             margin == best - second_max_similarity(similarities)
         IN  IF accepts(best, second_max_similarity(similarities),
                        THRESHOLD, MIN_SIMILARITY_DIFFERENCE)
             THEN Return(embedding_dict[argmax(similarities)] \o <<best, margin>>)
             ELSE Return(<<None, Unknown, best, margin>>)

(* Recognizer.compare, from the similarities of the probe to each gallery
   embedding (line 61) and the embedding_dict of the same call (line 59) *)
compare(similarities, embedding_dict) ==
    IF Len(similarities) = 0 THEN Raise("ValueError")
    ELSE LET max_idx == argmax(similarities)
         IN  IF accepts(max_similarity(similarities),
                        second_max_similarity(similarities),
                        THRESHOLD, MIN_SIMILARITY_DIFFERENCE)
             THEN Return(embedding_dict[max_idx] \o <<1>>)
             ELSE Return(<<None, Unknown>>)

(* app.handle_recognition_detection: faces is whether the detector found a
   face; x, y, w, h are bound only in the branch that found one *)
handle_recognition_detection(faces, similarities, embedding_dict) ==
    IF ~faces THEN Raise("UnboundLocalError")
    ELSE LET recognized == compare(similarities, embedding_dict)
         IN  IF recognized.exc # "none" THEN recognized
             ELSE IF recognized.val[1] # None
                  THEN Return(recognized.val[2])
                  ELSE Return(Unknown)

----------------------------------------------------------------------------
(* The decision loop of app.main *)

(* a variant of line 116 that starts tracking one frame early *)
Tracked_early(count) == count >= FIRST_TRACKED_COUNT - 1

(* line 116: the frames that run detection and matching *)
Tracked(count) == count >= FIRST_TRACKED_COUNT

(* a variant of line 126 that checks one frame late *)
AcceptCheck_late(count, name) == count = ACCEPT_COUNT + 1 /\ name # Unknown

(* line 126 *)
AcceptCheck(count, name) == count = ACCEPT_COUNT /\ name # Unknown

(* a variant of line 128 that times out one frame late *)
TimeoutCheck_late(count, name) == count >= TIMEOUT_COUNT + 1 /\ name = Unknown

(* line 128 *)
TimeoutCheck(count, name) == count >= TIMEOUT_COUNT /\ name = Unknown

(* a variant of lines 122, 124 that keeps a recognised name over a later
   "Unknown" *)
StoreCandidate_sticky(prev, new_email) ==
    IF SplitAt0(new_email) = Unknown /\ prev.recognized_name \notin {Unknown, Unbound}
    THEN [prev EXCEPT !.email = new_email]
    ELSE [prev EXCEPT !.email = new_email,
                      !.recognized_name = SplitAt0(new_email),
                      !.recognized_email = new_email]

(* lines 122, 124: what one tracked frame stores, given the locals before it
   and the email returned by handle_recognition_detection *)
StoreCandidate(prev, new_email) ==
    [prev EXCEPT !.email = new_email,
                 !.recognized_name = SplitAt0(new_email),
                 !.recognized_email = new_email]

(* lines 111-130: one iteration of the while loop. ret is what cap.read()
   returned, faces and similarities what the detector and the embedding
   model gave for the frame. brk is the break taken, if any. *)
LoopBody(loc, ret, faces, similarities, embedding_dict) ==
    IF ~ret THEN [loc EXCEPT !.exc = "cv2.error"]          \* cv2.flip(None, 1)
    ELSE LET count == loc.frame_count + 1
             counted == [loc EXCEPT !.frame_count = count]
             got == handle_recognition_detection(faces, similarities, embedding_dict)
         IN  IF Tracked(count) /\ got.exc # "none"
             THEN [counted EXCEPT !.exc = got.exc]
             ELSE LET after == IF Tracked(count) THEN StoreCandidate(counted, got.val)
                                                 ELSE counted
                  IN  IF AcceptCheck(count, after.recognized_name)
                      THEN [after EXCEPT !.brk = "accept"]
                      ELSE IF TimeoutCheck(count, after.recognized_name)
                           THEN [after EXCEPT !.brk = "timeout"]
                           ELSE after

Locals == [frame_count |-> frame_count, email |-> email,
           recognized_name |-> recognized_name,
           recognized_email |-> recognized_email,
           exc |-> "none", brk |-> "none"]

(* lines 136-141, without the timestamp *)
Payload(loc) == [email |-> loc.recognized_email, type |-> action]

(* what post_attendance and response.json() can give: a JSON body with
   status 200, one with another status, a body that is no JSON, or no
   response at all (requests.post raises) *)
Responses == {"200", "500", "nojson", "noresponse"}

(* a variant of cap.read() that delivers frames from any capture *)
ReadResults_any == BOOLEAN

(* what cap.read() can return: nothing from a capture that did not open *)
ReadResults == IF cap = "open" THEN BOOLEAN ELSE {FALSE}

(* what the detector and the embedding model can give for one frame: no
   face, or a face whose embedding has some similarity to each gallery
   embedding *)
Detections(embedding_dict) ==
    {[faces |-> FALSE, similarities |-> <<>>]}
    \cup [faces : {TRUE}, similarities : [1..Len(embedding_dict) -> SimVals]]

(* A script run that ends before line 132 never calls cap.release(): the
   capture stays open unless the runtime has already finalized the object *)
Unreleased(c) == IF c = "open" THEN {"open", "released"} ELSE {c}

(* what each message of main tells the user: line 129 "Opps, {action}
   failed!", line 145 "{recognized_name} {action} successfully at
   {current_time}", line 147 "Odoo server is having an unexpected error.";
   names is whether the text holds the recognized name *)
MessageText(m) ==
    CASE m = "success" -> [level |-> "success", names |-> TRUE, about |-> "attendance"]
      [] m = "server_error" -> [level |-> "error", names |-> FALSE, about |-> "server"]
      [] m = "failed" -> [level |-> "error", names |-> FALSE, about |-> "recognition"]
      [] m = "synced" -> [level |-> "success", names |-> FALSE, about |-> "sync"]
      [] OTHER -> [level |-> "none", names |-> FALSE, about |-> "none"]

(* a variant of lines 130-147 whose break does not leave the loop *)
AfterLoop_keeps_looping(loc) ==
    /\ cap' = "released"
    /\ pc' = "loop"
    /\ outcome' = IF loc.brk = "accept" THEN "ACCEPTED" ELSE "TIMEOUT_FAILED"
    /\ IF loc.recognized_name # Unknown
       THEN \E response \in Responses :
            /\ posts' = Append(posts, Payload(loc))
            /\ exc' = CASE response = "noresponse" -> "RequestException"
                        [] response = "nojson" -> "JSONDecodeError"
                        [] OTHER -> "none"
            /\ msg' = CASE response = "200" -> "success"
                        [] response = "500" -> "server_error"
                        [] OTHER -> IF loc.brk = "timeout" THEN "failed" ELSE "none"
       ELSE /\ posts' = posts
            /\ exc' = "none"
            /\ msg' = IF loc.brk = "timeout" THEN "failed" ELSE "none"

(* lines 132-147: after a break the capture is released and, for a name other
   than "Unknown", the attendance is posted *)
AfterLoop(loc) ==
    /\ cap' = "released"
    /\ pc' = "idle"
    /\ outcome' = IF loc.brk = "accept" THEN "ACCEPTED" ELSE "TIMEOUT_FAILED"
    /\ IF loc.recognized_name # Unknown
       THEN \E response \in Responses :
            /\ posts' = Append(posts, Payload(loc))
            /\ exc' = CASE response = "noresponse" -> "RequestException"
                        [] response = "nojson" -> "JSONDecodeError"
                        [] OTHER -> "none"
            /\ msg' = CASE response = "200" -> "success"
                        [] response = "500" -> "server_error"
                        [] OTHER -> IF loc.brk = "timeout" THEN "failed" ELSE "none"
       ELSE /\ posts' = posts
            /\ exc' = "none"
            /\ msg' = IF loc.brk = "timeout" THEN "failed" ELSE "none"

(* one iteration of the while loop of main, with what follows the loop when
   the iteration breaks out of it *)
LoopIteration ==
    /\ pc = "loop"
    /\ frame_count < MaxFrames
    /\ \E ret \in ReadResults, det \in Detections(fetch_embeddings_data(users)) :
          LET loc == LoopBody(Locals, ret, det.faces, det.similarities,
                              fetch_embeddings_data(users))
          IN  /\ frame_count' = loc.frame_count
              /\ email' = loc.email
              /\ recognized_name' = loc.recognized_name
              /\ recognized_email' = loc.recognized_email
              /\ all_unknown' = (all_unknown /\
                                   (Tracked(loc.frame_count) /\ loc.exc = "none"
                                       => loc.recognized_name = Unknown))
              /\ started_after' = "NONE"
              /\ IF loc.exc # "none"
                 THEN /\ exc' = loc.exc
                      /\ pc' = "idle"
                      /\ outcome' = "RAISED"
                      /\ cap' \in Unreleased(cap)
                      /\ UNCHANGED <<msg, posts>>
                 ELSE IF loc.brk # "none"
                      THEN AfterLoop(loc)
                      ELSE UNCHANGED <<pc, cap, outcome, exc, msg, posts>>
    /\ UNCHANGED <<stop, action, users, next_id, matcher, tform, gui, test>>

----------------------------------------------------------------------------
(* Gallery synchronisation *)

(* an employee of the HR response: image is absent, shows a face the
   detector finds, or shows none; email may be empty *)
EmployeeKinds ==
    [image : {"face"}, email : Emails \cup {EmptyStr}]
    \cup [image : {"none", "noface"}, email : {<<"an", "@", "corp">>}]

EmployeeLists == UNION {[1..n -> EmployeeKinds] : n \in 0..MaxUsers}

(* call_api.handle_data_synced with save_embeddings and
   DBManager.create_embeddings: a non-empty response clears the table, then
   every employee with an image and an email whose image shows a face gets
   a row with the next id *)
handle_data_synced(table, nid, employees) ==
    IF Len(employees) = 0 THEN [users |-> table, next_id |-> nid]
    ELSE LET saved == SelectSeq(employees,
                                LAMBDA e : e.image # "none" /\ e.email # EmptyStr
                                           /\ e.image = "face")
         IN  [users |-> [i \in 1..Len(saved) |-> Row(nid + i - 1, saved[i].email)],
              next_id |-> nid + Len(saved)]

----------------------------------------------------------------------------
(* The script runs of app.main, one per button press *)

(* line 98 *)
SyncBranch(s, a) == a = "sync_data" /\ s = TRUE

(* line 104 *)
LoopBranch(s, a) == s = FALSE /\ a \in {"check-in", "check-out"}

(* A press while the loop runs makes Streamlit end that script run at its
   next st call, line 125: nothing after the loop runs, line 132 included *)
EndRunningScript ==
    IF pc = "loop"
    THEN /\ outcome' = "CANCELLED"
         /\ cap' \in Unreleased(cap)
    ELSE /\ outcome' = "NONE"
         /\ cap' = cap

(* a variant of lines 105-109 without the frame_count = 0 of line 107 *)
StartSession_keeps_count ==
    /\ \E opened \in BOOLEAN : cap' = IF opened THEN "open" ELSE "unopened"
    /\ frame_count' = frame_count
    /\ recognized_email' = EmptyStr
    /\ recognized_name' = Unbound
    /\ email' = Unbound
    /\ pc' = "loop"
    /\ outcome' = "NONE"
    /\ all_unknown' = TRUE
    /\ started_after' = (IF pc = "loop" THEN "CANCELLED" ELSE outcome)
    /\ exc' = "none" /\ msg' = "none" /\ posts' = <<>>

(* lines 105-109 *)
StartSession ==
    /\ \E opened \in BOOLEAN : cap' = IF opened THEN "open" ELSE "unopened"
    /\ frame_count' = 0
    /\ recognized_email' = EmptyStr
    /\ recognized_name' = Unbound
    /\ email' = Unbound
    /\ pc' = "loop"
    /\ outcome' = "NONE"
    /\ all_unknown' = TRUE
    /\ started_after' = (IF pc = "loop" THEN "CANCELLED" ELSE outcome)
    /\ exc' = "none" /\ msg' = "none" /\ posts' = <<>>

(* a script run that enters neither handle_data_synced nor the loop: it has
   fresh locals, and it renders a page without the messages of the run before *)
ShowPage ==
    /\ EndRunningScript
    /\ pc' = "idle"
    /\ frame_count' = 0
    /\ email' = Unbound
    /\ recognized_name' = Unbound
    /\ recognized_email' = EmptyStr
    /\ all_unknown' = TRUE
    /\ started_after' = "NONE"
    /\ exc' = "none" /\ msg' = "none" /\ posts' = <<>>

(* the if/elif chain of main, lines 94-104, once the buttons have set the
   flags and with the "Sync Data" button not pressed *)
Render(s, a) ==
    IF a = "home" THEN ShowPage
    ELSE IF SyncBranch(s, a) THEN ShowPage
    ELSE IF LoopBranch(s, a) THEN StartSession
    ELSE ShowPage

(* a variant of lines 75-77 that leaves stop as it is *)
PressHome_keeps_stop ==
    /\ stop' = stop
    /\ action' = "home"
    /\ Render(stop, "home")
    /\ UNCHANGED <<users, next_id, matcher, tform, gui, test>>

(* lines 75-77 *)
PressHome ==
    /\ stop' = TRUE
    /\ action' = "home"
    /\ Render(TRUE, "home")
    /\ UNCHANGED <<users, next_id, matcher, tform, gui, test>>

(* lines 80-82 *)
PressSync ==
    /\ stop' = TRUE
    /\ action' = "sync_data"
    /\ Render(TRUE, "sync_data")
    /\ UNCHANGED <<users, next_id, matcher, tform, gui, test>>

(* lines 85-87 *)
PressCheckIn ==
    /\ stop' = FALSE
    /\ action' = "check-in"
    /\ Render(FALSE, "check-in")
    /\ UNCHANGED <<users, next_id, matcher, tform, gui, test>>

(* lines 90-92 *)
PressCheckOut ==
    /\ stop' = FALSE
    /\ action' = "check-out"
    /\ Render(FALSE, "check-out")
    /\ UNCHANGED <<users, next_id, matcher, tform, gui, test>>

(* lines 100-102: the script run of a "Sync Data" press once inside the sync
   branch; the HR server answers with a list of employees or not at all *)
RunSync ==
    /\ \E hr \in {"ok", "down"}, employees \in EmployeeLists :
          IF hr = "down"
          THEN /\ exc' = "RequestException"
               /\ UNCHANGED <<msg, users, next_id>>
          ELSE LET db == handle_data_synced(users, next_id, employees)
               IN  /\ db.next_id <= MaxId + 1
                   /\ users' = db.users
                   /\ next_id' = db.next_id
                   /\ exc' = "none"
                   /\ msg' = "synced"
    /\ UNCHANGED <<stop, action, pc, cap, frame_count, email, recognized_name,
                   recognized_email, outcome, posts, all_unknown, started_after,
                   matcher, tform, gui, test>>

(* a variant of the sync press: the button handled outside the sync branch *)
PressSyncData_anywhere == RunSync

(* lines 94-102: the "Sync Data" button is rendered, and its press handled,
   only by a script run that reaches the sync branch; the press reruns the
   script with no sidebar button set *)
PressSyncData ==
    /\ action # "home"
    /\ SyncBranch(stop, action)
    /\ RunSync

----------------------------------------------------------------------------

(* the components that app.py does not run *)
TformIdle == [src |-> <<>>, dst |-> <<>>, stage |-> "idle"]
TestIdle == [stage |-> "idle"]
GuiIdle == [cap |-> "None", timers |-> 0, frames |-> 0, threads |-> {},
            canvas |-> <<>>, exc |-> "none"]
NoLocals == [bound |-> FALSE]
MatcherIdle == [table |-> <<>>, probe |-> [zero |-> FALSE],
                similarities |-> <<>>, embedding_dict |-> <<>>, called |-> FALSE,
                locals |-> NoLocals, recognized |-> Return(<<>>)]

AppInit ==
    /\ stop = TRUE
    /\ action = "home"
    /\ pc = "idle"
    /\ cap = "none"
    /\ frame_count = 0
    /\ email = Unbound
    /\ recognized_name = Unbound
    /\ recognized_email = EmptyStr
    /\ outcome = "NONE"
    /\ exc = "none"
    /\ msg = "none"
    /\ posts = <<>>
    /\ all_unknown = TRUE
    /\ started_after = "NONE"
    /\ users = <<>>
    /\ next_id = 1

Init ==
    /\ AppInit
    /\ test = TestIdle
    /\ matcher = MatcherIdle
    /\ tform = TformIdle
    /\ gui = GuiIdle

Next ==
    \/ PressHome
    \/ PressSync
    \/ PressCheckIn
    \/ PressCheckOut
    \/ PressSyncData
    \/ LoopIteration

Spec == Init /\ [][Next]_vars

----------------------------------------------------------------------------
(* Recognizer.compare as a function of the similarities and the gallery *)

MaxGallery == 3       \* gallery entries of one call of compare in the model

MatchSims == {-20, 5, 20, 45, 46, 48, 50, 56, 80}

GallerySims == {20, 50, 80}

(* a users table of n rows with the given embeddings *)
Table(embeddings) ==
    [i \in 1..Len(embeddings) |->
        [id |-> i, username |-> <<ToString(i), "@", "corp">>, embedding |-> embeddings[i]]]

(* a call on a gallery whose embeddings and probe have a norm other than 0 *)
MatcherInit ==
    /\ AppInit
    /\ test = TestIdle
    /\ tform = TformIdle
    /\ gui = GuiIdle
    /\ \E n \in 0..MaxGallery : \E sims \in [1..n -> MatchSims] :
          matcher = [MatcherIdle EXCEPT
                        !.table = Table([i \in 1..n |-> Vec(FALSE, sims[i])])]

(* a call on any users table: rows without embedding, zero vectors, and a
   probe that may be the zero vector *)
GalleryInit ==
    /\ AppInit
    /\ test = TestIdle
    /\ tform = TformIdle
    /\ gui = GuiIdle
    /\ \E n \in 0..MaxGallery :
          \E embeddings \in [1..n -> {NullEmbedding, EmptyEmbedding, Vec(TRUE, 0)}
                                      \cup {Vec(FALSE, d) : d \in GallerySims}],
             zero \in BOOLEAN :
             matcher = [MatcherIdle EXCEPT !.table = Table(embeddings),
                                           !.probe = [zero |-> zero]]

(* the locals of compare that lines 63-67 bind; np.argmax of an empty list
   raises before any of them is bound *)
compare_locals(similarities) ==
    IF Len(similarities) = 0 THEN NoLocals
    ELSE [bound |-> TRUE,
          max_idx |-> argmax(similarities),
          max_similarity |-> max_similarity(similarities),
          second_max_similarity |-> second_max_similarity(similarities)]

(* recognized = recognizer.compare(embedding=input_emb) *)
CallCompare ==
    /\ ~matcher.called
    /\ LET embeddings == fetch_embeddings(matcher.table)
           embedding_dict == fetch_embeddings_data(matcher.table)
           similarities == [i \in 1..Len(embeddings) |->
                               cosine_similarity(matcher.probe, embeddings[i])]
       IN  matcher' = [matcher EXCEPT
                         !.called = TRUE,
                         !.similarities = similarities,
                         !.embedding_dict = embedding_dict,
                         !.locals = compare_locals(similarities),
                         !.recognized = compare(similarities, embedding_dict)]
    /\ UNCHANGED <<app_vars, tform, gui, test>>

MatcherNext == CallCompare

SpecMatcher == MatcherInit /\ [][MatcherNext]_vars

SpecGallery == GalleryInit /\ [][MatcherNext]_vars

----------------------------------------------------------------------------
(* Properties *)

(* a step of the loop that read a frame and did not raise *)
FrameStep == pc = "loop" /\ frame_count' = frame_count + 1 /\ outcome' # "RAISED"

\* C1, as stated: when the frame with index ACCEPT_CHECK_FRAME = 40 (indices
\* from 0, so the 41st frame read) gives a candidate other than Unknown (a
\* name other than "Unknown"), the loop ends ACCEPTED on that frame and posts
\* exactly one record built from that frame's candidate.
C1_AcceptAtIndex40 ==
    [][(FrameStep /\ frame_count' - 1 = ACCEPT_CHECK_FRAME /\ SplitAt0(email') # Unknown)
       => /\ pc' = "idle"
          /\ outcome' = "ACCEPTED"
          /\ posts' = <<[email |-> email', type |-> action]>>]_vars

\* C1, amended: when the 40th frame read (frame_count = 40, index 39) gives a
\* candidate whose name, the e-mail up to "@", is not "Unknown", the loop ends
\* ACCEPTED on that frame, releases the capture, reads no further frame and
\* posts exactly one record, built from that frame's candidate and the action.
C1_AcceptAtCount40 ==
    [][(FrameStep /\ frame_count' = ACCEPT_COUNT /\ SplitAt0(email') # Unknown)
       => /\ pc' = "idle"
          /\ outcome' = "ACCEPTED"
          /\ cap' = "released"
          /\ posts' = <<[email |-> email', type |-> action]>>]_vars

C1_Witness ==
    /\ outcome = "ACCEPTED"
    /\ frame_count = ACCEPT_COUNT
    /\ posts = <<[email |-> email, type |-> action]>>

\* C2, as stated: a session whose frames all give Unknown ends TIMEOUT_FAILED
\* at the frame with index TIMEOUT_FRAME = 50 (the 51st frame read), and posts
\* nothing.
C2_TimeoutAtIndex50 ==
    (outcome = "TIMEOUT_FAILED" /\ all_unknown)
        => (frame_count - 1 = TIMEOUT_FRAME /\ posts = <<>>)

\* C2, amended: a session whose tracked frames all give Unknown is still in
\* the loop before its 50th frame, ends TIMEOUT_FAILED on the 50th frame read
\* (frame_count = 50, index 49), and a session that ends TIMEOUT_FAILED has
\* posted nothing.
C2_TimeoutAtCount50 ==
    /\ [](/\ (pc = "loop" /\ all_unknown) => frame_count < TIMEOUT_COUNT
          /\ outcome = "TIMEOUT_FAILED" => (pc = "idle" /\ posts = <<>>)
          /\ (outcome = "TIMEOUT_FAILED" /\ all_unknown) => frame_count = TIMEOUT_COUNT)
    /\ [][(FrameStep /\ frame_count' = TIMEOUT_COUNT /\ all_unknown')
          => (outcome' = "TIMEOUT_FAILED" /\ pc' = "idle" /\ posts' = <<>>)]_vars

C2_Witness ==
    outcome = "TIMEOUT_FAILED" /\ all_unknown /\ frame_count = TIMEOUT_COUNT

\* C3: the loop is frame-count bounded: whatever the candidates, a session has
\* ended before it has read as many frames as the bound given to the model
\* (MaxFrames, beyond the timeout frame).
C3_FrameBounded == pc = "loop" => frame_count < MaxFrames

\* C4: while at most WARMUP_FRAMES = 34 frames have been read, no detection or
\* matching has run: no candidate is stored and none of the exceptions of
\* handle_recognition_detection has been raised.
C4_WarmupNoMatching ==
    frame_count <= WARMUP_FRAMES
        => /\ email = Unbound
           /\ recognized_name = Unbound
           /\ recognized_email = EmptyStr
           /\ exc \notin {"UnboundLocalError", "ValueError"}

C4_Witness == pc = "loop" /\ frame_count = WARMUP_FRAMES /\ cap = "open"

\* C5: a tracked frame overwrites the stored candidate with its own, and the
\* accept and timeout checks are decided by that frame's candidate alone:
\* at the accept frame the loop accepts iff this frame's name is not
\* "Unknown", from the timeout frame on it times out iff this frame's name is
\* "Unknown", whatever the earlier frames gave.
C5_LastCandidateDecides ==
    [][(FrameStep /\ frame_count' >= FIRST_TRACKED_COUNT)
       => /\ recognized_email' = email'
          /\ recognized_name' = SplitAt0(email')
          /\ frame_count' = ACCEPT_COUNT
                => (outcome' = "ACCEPTED" <=> SplitAt0(email') # Unknown)
          /\ frame_count' >= TIMEOUT_COUNT
                => (outcome' = "TIMEOUT_FAILED" <=> SplitAt0(email') = Unknown)
          /\ (frame_count' # ACCEPT_COUNT /\ frame_count' < TIMEOUT_COUNT)
                => outcome' = "NONE"]_vars

(* a session that timed out on its last frame although an earlier tracked
   frame had given a name *)
C5_Witness == outcome = "TIMEOUT_FAILED" /\ ~all_unknown

\* C6: a frame without a face gives the candidate Unknown and the loop goes
\* on: no session is ended by the exception that handle_recognition_detection
\* raises for such a frame.
C6_NoFaceContinues == ~(outcome = "RAISED" /\ exc = "UnboundLocalError")

\* C7: the capture is released on every exit path of the session: no session
\* that ended ACCEPTED, TIMEOUT_FAILED or by an exception raised while a frame
\* was read or processed has left the capture open (cancellation is C8).
C7_ReleasedOnEveryExit ==
    (pc = "idle" /\ outcome \in {"ACCEPTED", "TIMEOUT_FAILED", "RAISED"})
        => cap # "open"

\* C8: a cancelled session has stopped reading frames, released the capture
\* and posted no attendance record.
C8_CancelReleases ==
    outcome = "CANCELLED" => (pc = "idle" /\ cap # "open" /\ posts = <<>>)

C10_EmptyGalleryIsUnknown == ~(outcome = "RAISED" /\ exc = "ValueError")

----------------------------------------------------------------------------
(* similarity_transforms.py in two dimensions.  Coordinates are integers and
   every float is the exact rational <<numerator, denominator>> in lowest
   terms with a positive denominator. *)

Abs(x) == IF x < 0 THEN -x ELSE x

RECURSIVE GCD(_, _)
GCD(a, b) == IF b = 0 THEN a ELSE GCD(b, a % b)

Rat(n, d) ==
    LET g == GCD(Abs(n), Abs(d))
        sgn == IF d < 0 THEN -1 ELSE 1
    IN  <<(sgn * n) \div g, (sgn * d) \div g>>

RZero == <<0, 1>>
ROne == <<1, 1>>
RInt(k) == <<k, 1>>
RNeg(a) == <<-a[1], a[2]>>
RAdd(a, b) ==
    LET g == GCD(a[2], b[2])
    IN  Rat(a[1] * (b[2] \div g) + b[1] * (a[2] \div g), (a[2] \div g) * b[2])
RSub(a, b) == RAdd(a, RNeg(b))
RMul(a, b) ==
    LET g1 == GCD(Abs(a[1]), b[2])
        g2 == GCD(Abs(b[1]), a[2])
    IN  Rat((a[1] \div g1) * (b[1] \div g2), (a[2] \div g2) * (b[2] \div g1))
RDiv(a, b) == RMul(a, Rat(b[2], b[1]))

RECURSIVE Sum(_)
Sum(s) == IF Len(s) = 0 THEN 0 ELSE Head(s) + Sum(Tail(s))

(* column c of an array of points *)
Column(points, c) == [k \in 1..Len(points) |-> points[k][c]]

(* lines 110-118: the sum over the points of (u - u.mean()) * (v - v.mean()),
   times num: num * sum(u * v) - sum(u) * sum(v), an integer for integer
   columns *)
Centered(u, v) ==
    Len(u) * Sum([k \in 1..Len(u) |-> u[k] * v[k]]) - Sum(u) * Sum(v)

(* line 118: A = dst_demean.T @ src_demean / num, as the integer matrix
   num^2 * A *)
Covariance(src, dst) ==
    << <<Centered(Column(dst, 1), Column(src, 1)), Centered(Column(dst, 1), Column(src, 2))>>,
       <<Centered(Column(dst, 2), Column(src, 1)), Centered(Column(dst, 2), Column(src, 2))>> >>

(* np.linalg.det of a 2 x 2 matrix *)
det(A) == A[1][1] * A[2][2] - A[1][2] * A[2][1]

(* a variant of np.linalg.matrix_rank that gives the zero matrix rank 1 *)
matrix_rank_nonzero(A) ==
    IF det(A) # 0 THEN 2 ELSE 1

(* line 130: np.linalg.matrix_rank of a 2 x 2 matrix *)
matrix_rank(A) ==
    IF \A i, j \in 1..2 : A[i][j] = 0 THEN 0
    ELSE IF det(A) = 0 THEN 1
    ELSE 2

(* line 146: src_demean.var(axis=0).sum(), as the integer num^2 * var *)
variance(src) ==
    Centered(Column(src, 1), Column(src, 1)) + Centered(Column(src, 2), Column(src, 2))

NaNMatrix(zd, r) == [nan |-> TRUE, zero_division |-> zd, rank |-> r, rows |-> <<>>]

(* _umeyama(src, dst, estimate_scale=True) with dim = 2.
   Lines 121-143 build the proper rotation R = U diag(d) V that maximises
   trace(R^T A), for rank dim - 1 (lines 133-141) as for full rank (line
   143): R = [[p, -q], [q, p]] / sqrt(p^2 + q^2) with p = A11 + A22 and
   q = A21 - A12, and S @ d = sqrt(p^2 + q^2) = sqrt(|A|^2 + 2 det A).  The
   block that line 151 leaves in T is scale * R = [[p, -q], [q, p]] / var,
   which is rational; it is the zero block when S @ d = 0.  Line 132 returns
   for rank 0 before line 146 divides by the variance. *)
umeyama(src, dst) ==
    LET num == Len(src)
        A == Covariance(src, dst)
        rank == matrix_rank(A)
        var == variance(src)
    IN  IF rank = 0 THEN NaNMatrix(FALSE, rank)
        ELSE IF var = 0 THEN NaNMatrix(TRUE, rank)
        ELSE LET pn == A[1][1] + A[2][2]
                 qn == A[2][1] - A[1][2]
                 sx == Sum(Column(src, 1))
                 sy == Sum(Column(src, 2))
                 t1 == Rat(Sum(Column(dst, 1)) * var - (pn * sx - qn * sy), num * var)
                 t2 == Rat(Sum(Column(dst, 2)) * var - (qn * sx + pn * sy), num * var)
             IN  [nan |-> FALSE, zero_division |-> FALSE, rank |-> rank,
                  rows |-> << <<Rat(pn, var), Rat(-qn, var), t1>>,
                              <<Rat(qn, var), Rat(pn, var), t2>>,
                              <<RZero, RZero, ROne>> >>]

(* a variant of estimate that succeeds on full rank only *)
estimate_full_rank_only(src, dst) ==
    LET params == umeyama(src, dst)
    IN  [params |-> params, success |-> ~params.nan /\ params.rank = 2]

(* SimilarityTransform.estimate: self.params and the return value *)
estimate(src, dst) ==
    LET params == umeyama(src, dst)
    IN  [params |-> params, success |-> ~params.nan]

(* ProjectiveTransform._apply_mat for a matrix whose last row is (0, 0, 1):
   the homogeneous coordinate is 1, so line 285 replaces nothing *)
apply_mat(coords, rows) ==
    [k \in 1..Len(coords) |->
        LET h == [i \in 1..3 |->
                    RAdd(RAdd(RMul(rows[i][1], coords[k][1]),
                              RMul(rows[i][2], coords[k][2])),
                         rows[i][3])]
        IN  <<RDiv(h[1], h[3]), RDiv(h[2], h[3])>>]

(* ProjectiveTransform._inv_matrix: np.linalg.inv of a matrix whose last row
   is (0, 0, 1); a singular matrix raises LinAlgError *)
inv_matrix(rows) ==
    LET dt == RSub(RMul(rows[1][1], rows[2][2]), RMul(rows[1][2], rows[2][1]))
    IN  IF dt = RZero THEN Raise("LinAlgError")
        ELSE LET i11 == RDiv(rows[2][2], dt)
                 i12 == RNeg(RDiv(rows[1][2], dt))
                 i21 == RNeg(RDiv(rows[2][1], dt))
                 i22 == RDiv(rows[1][1], dt)
                 t1 == RNeg(RAdd(RMul(i11, rows[1][3]), RMul(i12, rows[2][3])))
                 t2 == RNeg(RAdd(RMul(i21, rows[1][3]), RMul(i22, rows[2][3])))
             IN  Return(<< <<i11, i12, t1>>, <<i21, i22, t2>>,
                           <<RZero, RZero, ROne>> >>)

NumPoints == 4        \* points of one correspondence in the model

Pts == {<<0, 0>>, <<1, 0>>, <<2, 0>>, <<3, 0>>, <<0, 1>>, <<1, 1>>}

(* the destinations tried for a source: the source itself, mirror images,
   a rotation, a scaled translation, a single point, and a fixed template *)
Destinations(src) ==
    { src,
      [k \in 1..Len(src) |-> <<-src[k][1], src[k][2]>>],
      [k \in 1..Len(src) |-> <<src[k][2], src[k][1]>>],
      [k \in 1..Len(src) |-> <<-src[k][2], src[k][1]>>],
      [k \in 1..Len(src) |-> <<2 * src[k][1] + 1, 2 * src[k][2]>>],
      [k \in 1..Len(src) |-> <<1, 1>>],
      [k \in 1..Len(src) |-> <<k, (k * k) % 3>>] }

RatPoints(points) == [k \in 1..Len(points) |-> <<RInt(points[k][1]), RInt(points[k][2])>>]

TformInit ==
    /\ AppInit
    /\ test = TestIdle
    /\ matcher = MatcherIdle
    /\ gui = GuiIdle
    /\ \E src \in [1..NumPoints -> Pts] : \E dst \in Destinations(src) :
          tform = [src |-> src, dst |-> dst, stage |-> "new"]

(* tform = SimilarityTransform(); tform.estimate(src, dst) *)
Estimate ==
    /\ tform.stage = "new"
    /\ LET e == estimate(tform.src, tform.dst)
       IN  tform' = [src |-> tform.src, dst |-> tform.dst, stage |-> "estimated",
                     params |-> e.params, success |-> e.success]
    /\ UNCHANGED <<app_vars, matcher, gui, test>>

(* tform(src), by a caller that has checked the return value of estimate *)
Apply ==
    /\ tform.stage = "estimated"
    /\ tform.success
    /\ tform' = [src |-> tform.src, dst |-> tform.dst, stage |-> "applied",
                 params |-> tform.params, success |-> tform.success,
                 coords |-> apply_mat(RatPoints(tform.src), tform.params.rows)]
    /\ UNCHANGED <<app_vars, matcher, gui, test>>

(* tform.inverse(tform(src)) *)
ApplyInverse ==
    /\ tform.stage = "applied"
    /\ LET inv == inv_matrix(tform.params.rows)
       IN  tform' = [src |-> tform.src, dst |-> tform.dst, stage |-> "inverted",
                     params |-> tform.params, success |-> tform.success,
                     coords |-> tform.coords,
                     exc |-> inv.exc,
                     back |-> IF inv.exc = "none"
                              THEN apply_mat(tform.coords, inv.val)
                              ELSE <<>>]
    /\ UNCHANGED <<app_vars, matcher, gui, test>>

(* str.lower, letter by letter *)
UpperCase == <<"A", "B", "C", "D", "E", "F", "G", "H", "I", "J", "K", "L", "M",
               "N", "O", "P", "Q", "R", "S", "T", "U", "V", "W", "X", "Y", "Z">>
LowerCase == <<"a", "b", "c", "d", "e", "f", "g", "h", "i", "j", "k", "l", "m",
               "n", "o", "p", "q", "r", "s", "t", "u", "v", "w", "x", "y", "z">>
lower(s) ==
    [k \in 1..Len(s) |->
        IF \E i \in 1..Len(UpperCase) : UpperCase[i] = s[k]
        THEN LowerCase[CHOOSE i \in 1..Len(UpperCase) : UpperCase[i] = s[k]]
        ELSE s[k]]

(* the names bound at the top level of similarity_transforms.py: its imports,
   functions and classes *)
ModuleGlobals ==
    {"math", "np", "textwrap", "sys", "_get_bound_method_class",
     "_center_and_normalize_points", "_umeyama", "GeometricTransform",
     "ProjectiveTransform", "_euler_rotation", "_euler_rotation_matrix",
     "EuclideanTransform", "SimilarityTransform", "estimate_transform",
     "matrix_transform"}

(* the value of a global name inside a function of the module *)
global_name(n) == IF n \in ModuleGlobals THEN Return(n) ELSE Raise("NameError")

(* estimate_transform, lines 859-867: the name TRANSFORMS is evaluated at
   line 860, before the type is looked up or anything is estimated *)
estimate_transform(ttype, src, dst) ==
    LET t == lower(ttype)
        TRANSFORMS == global_name("TRANSFORMS")
    IN  IF TRANSFORMS.exc # "none" THEN Raise(TRANSFORMS.exc)
        ELSE IF t \notin DOMAIN TRANSFORMS.val THEN Raise("ValueError")
        ELSE Return([type |-> TRANSFORMS.val[t], params |-> estimate(src, dst).params])

(* the type names a caller passes: a class of the module in mixed case, a
   type of the docstring that the module has no class for, and no type *)
TTypes == {<<"S", "i", "m", "i", "l", "a", "r", "i", "t", "y">>,
           <<"a", "f", "f", "i", "n", "e">>,
           <<"b", "o", "g", "u", "s">>}

(* tform = estimate_transform(ttype, src, dst) *)
EstimateTransform ==
    /\ tform.stage = "new"
    /\ \E ttype \in TTypes :
          tform' = [src |-> tform.src, dst |-> tform.dst, stage |-> "called",
                    ttype |-> ttype,
                    result |-> estimate_transform(ttype, tform.src, tform.dst)]
    /\ UNCHANGED <<app_vars, matcher, gui, test>>

TformNext ==
    \/ Estimate
    \/ EstimateTransform
    \/ Apply
    \/ ApplyInverse

SpecTform == TformInit /\ [][TformNext]_vars

----------------------------------------------------------------------------
(* gui_optimize.py: the Tk window, its timer callbacks and worker threads.
   A frame is named by its number in the order cap.read() returned it. *)

MaxGuiFrames == 4     \* frames the capture delivers in the model

(* update_video, lines 83-95, called in the Tk main loop with pending timers
   left in g.  Without an open capture it does nothing.  A read that fails
   gives frame None, and cv2.flip(None, 1) of line 88 raises before line 95
   reschedules.  A frame that was read is handed to a new thread and
   update_video is scheduled again. *)
update_video(g) ==
    IF g.cap # "open" THEN {g}
    ELSE {[g EXCEPT !.exc = "cv2.error"]}
         \cup {[g EXCEPT !.frames = g.frames + 1,
                         !.threads = g.threads \cup {g.frames + 1},
                         !.timers = g.timers + 1,
                         !.exc = "none"]}

(* the button of line 120: command=update_video *)
PressOpenCamera ==
    /\ gui.frames < MaxGuiFrames
    /\ gui' \in update_video(gui)
    /\ UNCHANGED <<app_vars, matcher, tform, test>>

(* open_camera, lines 111-117, the only code that assigns a capture to cap;
   the button is bound to update_video, so open_camera runs when other code
   calls it *)
open_camera ==
    /\ gui.frames < MaxGuiFrames
    /\ \E opened \in BOOLEAN :
          IF opened
          THEN gui' \in update_video([gui EXCEPT !.cap = "open"])
          ELSE gui' = [gui EXCEPT !.cap = "unopened"]
    /\ UNCHANGED <<app_vars, matcher, tform, test>>

(* app.after(1, update_video), line 95: a pending timer fires *)
TimerFires ==
    /\ gui.timers > 0
    /\ gui.frames < MaxGuiFrames
    /\ gui' \in update_video([gui EXCEPT !.timers = gui.timers - 1])
    /\ UNCHANGED <<app_vars, matcher, tform, test>>

(* process_and_display, lines 97-109, in the thread of frame f: process_frame
   returns and the canvas gets the frame, or process_frame raises (compare on
   an empty gallery) and the thread ends without drawing *)
process_and_display ==
    /\ \E f \in gui.threads, raised \in BOOLEAN :
          gui' = [gui EXCEPT !.threads = gui.threads \ {f},
                             !.canvas = IF raised THEN gui.canvas
                                        ELSE Append(gui.canvas, f)]
    /\ UNCHANGED <<app_vars, matcher, tform, test>>

GuiInit ==
    /\ AppInit
    /\ test = TestIdle
    /\ matcher = MatcherIdle
    /\ tform = TformIdle
    /\ gui = GuiIdle

GuiNext ==
    \/ PressOpenCamera
    \/ open_camera
    \/ TimerFires
    \/ process_and_display

SpecGui == GuiInit /\ [][GuiNext]_vars

(***************************************************************************)
(* test.py: the Tk device window.  update_video reschedules itself every   *)
(* 10 ms (line 80), periodic_recognition every 3 s, and a recognition      *)
(* switches the capture off for 4 s.  Tk runs one callback at a time and   *)
(* fires the pending timers in the order of their due times.               *)
(***************************************************************************)
MaxClock == 16000      \* the Tk clock of the model, in ms
MaxTestFrames == 3     \* frames the capture delivers in the model
MaxVideoTimers == 2    \* pending update_video timers (one per live chain)

RECOGNITION_PERIOD == 3000
WAIT_PERIOD == 4000

(* input_emb = None, line 26 *)
NoEmbedding == [kind |-> "None"]

(* the embedding of the face of a frame; sim is its cosine similarity, in
   hundredths, to the one enrolled user *)
FrameEmbedding(frame, sim) == [kind |-> "vec", frame |-> frame, sim |-> sim]

(* the faces the detector finds in a frame, each by the similarity of its
   embedding: none, a stranger, the enrolled user *)
TestFaces == {<<>>, <<20>>, <<80>>}

(* app.after(ms, fn): the timer is queued behind every timer due no later *)
after(t, ms, fn) ==
    LET due == t.clock + ms
        k == Cardinality({i \in 1..Len(t.timers) : t.timers[i].due <= due})
    IN  [t EXCEPT !.timers = SubSeq(t.timers, 1, k) \o <<[fn |-> fn, due |-> due]>>
                              \o SubSeq(t.timers, k + 1, Len(t.timers))]

(* the globals after line 29 and the timer of line 113 *)
TestStart(device, enrolled) ==
    [stage |-> "mainloop",
     cap |-> device,
     gallery |-> Table([i \in 1..enrolled |-> Vec(FALSE, 0)]),
     name |-> Unknown,
     input_emb |-> NoEmbedding,
     last_frame |-> None,
     capture_enabled |-> TRUE,
     wait_period |-> FALSE,
     video_timers |-> 0,
     timers |-> <<[fn |-> "periodic_recognition", due |-> RECOGNITION_PERIOD]>>,
     clock |-> 0,
     frames |-> 0,
     canvas |-> "blank",
     compares |-> 0,
     compared |-> NoEmbedding,
     reenabled |-> FALSE,
     enabled_at |-> 0,
     exc |-> "none"]

(* update_video, lines 31-80.  ret is the result of cap.read() and faces what
   the detector finds; a failed read gives frame None and cv2.flip(None, 1)
   of line 37 raises before line 80 reschedules. *)
test_update_video(t, ret, faces) ==
    IF t.capture_enabled
    THEN IF ~ret THEN [t EXCEPT !.exc = "cv2.error"]
         ELSE LET frame == t.frames + 1
              IN  [t EXCEPT !.frames = frame,
                            !.input_emb = IF faces = <<>> THEN t.input_emb
                                          ELSE FrameEmbedding(frame, faces[1]),
                            !.canvas = "frame",
                            !.last_frame = frame,
                            !.video_timers = t.video_timers + 1,
                            !.exc = "none"]
    ELSE [t EXCEPT !.canvas = IF t.last_frame # None THEN "last_frame" ELSE t.canvas,
                   !.video_timers = t.video_timers + 1,
                   !.exc = "none"]

(* recognizer.compare(embedding=input_emb), line 87, on the gallery of the
   device *)
test_compare(t) ==
    LET embeddings == fetch_embeddings(t.gallery)
    IN  compare([i \in 1..Len(embeddings) |-> t.input_emb.sim],
                fetch_embeddings_data(t.gallery))

(* a variant of periodic_recognition whose line 100 is outside the if of
   line 85 *)
periodic_recognition_always(t) ==
    IF t.wait_period THEN after(t, RECOGNITION_PERIOD, "periodic_recognition")
    ELSE IF t.input_emb.kind = "None"
    THEN after(t, RECOGNITION_PERIOD, "periodic_recognition")
    ELSE LET recognize == test_compare(t)
             u == [t EXCEPT !.compares = t.compares + 1, !.compared = t.input_emb]
         IN  IF recognize.exc # "none" THEN [u EXCEPT !.exc = recognize.exc]
             ELSE IF recognize.val[1] # None
             THEN after(after([u EXCEPT !.name = recognize.val[2],
                                        !.capture_enabled = FALSE,
                                        !.wait_period = TRUE],
                              WAIT_PERIOD, "turn_on_camera"),
                        RECOGNITION_PERIOD, "periodic_recognition")
             ELSE after([u EXCEPT !.name = Unknown],
                        RECOGNITION_PERIOD, "periodic_recognition")

(* periodic_recognition, lines 82-100; an exception of compare ends the
   callback before line 100 *)
periodic_recognition(t) ==
    IF t.wait_period THEN t
    ELSE IF t.input_emb.kind = "None"
    THEN after(t, RECOGNITION_PERIOD, "periodic_recognition")
    ELSE LET recognize == test_compare(t)
             u == [t EXCEPT !.compares = t.compares + 1, !.compared = t.input_emb]
         IN  IF recognize.exc # "none" THEN [u EXCEPT !.exc = recognize.exc]
             ELSE IF recognize.val[1] # None
             THEN after(after([u EXCEPT !.name = recognize.val[2],
                                        !.capture_enabled = FALSE,
                                        !.wait_period = TRUE],
                              WAIT_PERIOD, "turn_on_camera"),
                        RECOGNITION_PERIOD, "periodic_recognition")
             ELSE after([u EXCEPT !.name = Unknown],
                        RECOGNITION_PERIOD, "periodic_recognition")

(* turn_on_camera, lines 102-107 *)
turn_on_camera(t) ==
    periodic_recognition([t EXCEPT !.capture_enabled = TRUE,
                                   !.wait_period = FALSE,
                                   !.reenabled = TRUE,
                                   !.enabled_at = t.frames])

(* the cap.read() of line 36 on the capture of line 23 *)
TestReadResults(t) == IF t.cap = "open" THEN BOOLEAN ELSE {FALSE}

(* the button of line 109: command=update_video starts one more chain *)
TestPressOpenCamera ==
    /\ test.frames < MaxTestFrames
    /\ test.video_timers < MaxVideoTimers
    /\ \E ret \in TestReadResults(test), faces \in TestFaces :
          test' = test_update_video(test, ret, faces)
    /\ UNCHANGED <<app_vars, matcher, tform, gui>>

(* a timer of line 80 fires *)
VideoTimerFires ==
    /\ test.video_timers > 0
    /\ test.frames < MaxTestFrames
    /\ \E ret \in TestReadResults(test), faces \in TestFaces :
          test' = test_update_video(
                      [test EXCEPT !.video_timers = test.video_timers - 1], ret, faces)
    /\ UNCHANGED <<app_vars, matcher, tform, gui>>

(* the timer that is due first, t.timers[1], fires at its due time *)
Fired(t) == [t EXCEPT !.timers = Tail(t.timers), !.clock = t.timers[1].due,
                      !.exc = "none"]

(* the timer of line 100 or 113 fires *)
PeriodicRecognitionFires ==
    /\ test.timers # <<>>
    /\ test.timers[1].fn = "periodic_recognition"
    /\ test.timers[1].due <= MaxClock
    /\ test' = periodic_recognition(Fired(test))
    /\ UNCHANGED <<app_vars, matcher, tform, gui>>

(* the timer of line 95 fires *)
TurnOnCameraFires ==
    /\ test.timers # <<>>
    /\ test.timers[1].fn = "turn_on_camera"
    /\ test.timers[1].due <= MaxClock
    /\ test' = turn_on_camera(Fired(test))
    /\ UNCHANGED <<app_vars, matcher, tform, gui>>

(* the window at app.mainloop(): the capture opened or not, the gallery
   empty or holding one user *)
TestInit ==
    /\ AppInit
    /\ matcher = MatcherIdle
    /\ tform = TformIdle
    /\ gui = GuiIdle
    /\ \E device \in {"open", "unopened"}, enrolled \in 0..1 :
          test = TestStart(device, enrolled)

TestNext ==
    \/ TestPressOpenCamera
    \/ VideoTimerFires
    \/ PeriodicRecognitionFires
    \/ TurnOnCameraFires

SpecTest == TestInit /\ [][TestNext]_vars

----------------------------------------------------------------------------
(* Properties of the matcher *)

(* the largest similarity of a non-empty list *)
Best(s) == CHOOSE x \in {s[i] : i \in 1..Len(s)} : \A i \in 1..Len(s) : s[i] <= x

(* the largest similarity left when one occurrence of the largest is removed,
   for a list of two entries and more *)
SecondBest(s) ==
    LET tops == {i \in 1..Len(s) : s[i] = Best(s)}
        one == CHOOSE i \in tops : TRUE
    IN  CHOOSE x \in {s[i] : i \in (1..Len(s)) \ {one}} :
            \A i \in (1..Len(s)) \ {one} : s[i] <= x

(* compare returned an identity *)
Accepted == matcher.recognized.exc = "none" /\ matcher.recognized.val[1] # None

Thresholds == {-100, -20, 0, 45, 80, 100}
PositiveMargins == {1, 10, 50, 200}

\* C11: for a gallery of two entries and more, compare returns an identity
\* exactly when the best similarity is greater than THRESHOLD (0.45) and
\* best minus second best is greater than MIN_SIMILARITY_DIFFERENCE (0.10),
\* both strictly; the identity returned is the entry at the index of the
\* best similarity; [0.50, 0.48] gives Unknown and [0.80, 0.20] gives the
\* first entry.
C11_AcceptIffThresholdAndMargin ==
    (matcher.called /\ Len(matcher.similarities) >= 2) =>
        LET s == matcher.similarities
            val == matcher.recognized.val
        IN  /\ matcher.recognized.exc = "none"
            /\ Accepted <=> (Best(s) > THRESHOLD
                             /\ Best(s) - SecondBest(s) > MIN_SIMILARITY_DIFFERENCE)
            /\ Accepted => \E i \in 1..Len(s) :
                              /\ s[i] = Best(s)
                              /\ SubSeq(val, 1, 2) = matcher.embedding_dict[i]
            /\ ~Accepted => val = <<None, Unknown>>
            /\ s = <<50, 48>> => val = <<None, Unknown>>
            /\ s = <<80, 20>> => SubSeq(val, 1, 2) = matcher.embedding_dict[1]

C11_Witness ==
    /\ matcher.called
    /\ matcher.similarities = <<20, 56, 45>>
    /\ Accepted
    /\ matcher.recognized.val[1] = 2

\* C12, as stated: with fewer than two gallery entries second_best is -1,
\* and a single entry is accepted exactly when its similarity is greater
\* than the threshold.
C12_SecondBestMinusOne ==
    (matcher.called /\ Len(matcher.similarities) = 1) =>
        /\ matcher.locals.second_max_similarity = -1
        /\ Accepted <=> matcher.similarities[1] > THRESHOLD

\* C12, amended: with a single gallery entry second_max_similarity is 0; the
\* threshold 0.45 is greater than the minimum difference 0.10, so the margin
\* test adds nothing and the entry is accepted exactly when its similarity is
\* greater than the threshold.
C12_SingleEntryThresholdOnly ==
    (matcher.called /\ Len(matcher.similarities) = 1) =>
        /\ matcher.locals.second_max_similarity = 0
        /\ Accepted <=> matcher.similarities[1] > THRESHOLD
        /\ Accepted => SubSeq(matcher.recognized.val, 1, 2) = matcher.embedding_dict[1]

C12_Witness ==
    /\ matcher.called
    /\ matcher.similarities = <<46>>
    /\ Accepted

\* C13: when two entries or more tie at the largest similarity, the second
\* best equals the best, the margin is 0, compare returns Unknown, and the
\* test of the if is false for every threshold and every positive minimum
\* difference.
C13_TopTieIsUnknown ==
    (/\ matcher.called
     /\ \E i, j \in 1..Len(matcher.similarities) :
           /\ i # j
           /\ matcher.similarities[i] = Best(matcher.similarities)
           /\ matcher.similarities[j] = Best(matcher.similarities)) =>
        /\ matcher.locals.second_max_similarity = matcher.locals.max_similarity
        /\ matcher.locals.max_similarity - matcher.locals.second_max_similarity = 0
        /\ matcher.recognized = Return(<<None, Unknown>>)
        /\ \A t \in Thresholds, m \in PositiveMargins :
              ~accepts(max_similarity(matcher.similarities),
                       second_max_similarity(matcher.similarities), t, m)

C13_Witness ==
    /\ matcher.called
    /\ matcher.similarities = <<80, 20, 80>>
    /\ matcher.recognized = Return(<<None, Unknown>>)

\* C14, as stated: the result of compare has four fields: (identity, name,
\* best similarity, margin) on accept and (None, "Unknown", best similarity,
\* margin) otherwise.
C14_FourFields ==
    (matcher.called /\ Len(matcher.similarities) >= 1) =>
        LET s == matcher.similarities
            val == matcher.recognized.val
            margin == matcher.locals.max_similarity - matcher.locals.second_max_similarity
        IN  /\ matcher.recognized.exc = "none"
            /\ Len(val) = 4
            /\ val[3] = Best(s)
            /\ val[4] = margin
            /\ ~Accepted => (val[1] = None /\ val[2] = Unknown)

\* C14, amended: the result of compare has the identity and the name and
\* neither the similarity nor the margin: on accept it is the [id, username]
\* of the entry at max_idx with the constant 1 appended, three fields;
\* otherwise it is [None, "Unknown"], two fields.
C14_IdentityAndNameOnly ==
    (matcher.called /\ Len(matcher.similarities) >= 1) =>
        LET val == matcher.recognized.val
        IN  /\ matcher.recognized.exc = "none"
            /\ IF Accepted
               THEN /\ Len(val) = 3
                    /\ <<val[1], val[2]>> = matcher.embedding_dict[matcher.locals.max_idx]
                    /\ val[3] = 1
               ELSE val = <<None, Unknown>>

C14_Witness ==
    /\ matcher.called
    /\ Accepted
    /\ Len(matcher.recognized.val) = 3
    /\ matcher.locals.max_similarity = 80

----------------------------------------------------------------------------
(* Properties of the similarity transform *)

Estimated == tform.stage \in {"estimated", "applied", "inverted"}

AllIdentical(points) == \A i, j \in 1..Len(points) : points[i] = points[j]

PairwiseDistinct(points) == \A i, j \in 1..Len(points) : i # j => points[i] # points[j]

Collinear(points) ==
    \A i, j, k \in 1..Len(points) :
        (points[j][1] - points[i][1]) * (points[k][2] - points[i][2])
            = (points[j][2] - points[i][2]) * (points[k][1] - points[i][1])

\* C15: when all source points are identical, SimilarityTransform.estimate
\* returns False, params is the NaN matrix and not a matrix of numbers, and
\* no division by zero has been performed.
C15_IdenticalSourceReportsFailure ==
    (Estimated /\ AllIdentical(tform.src)) =>
        /\ tform.success = FALSE
        /\ tform.params.nan
        /\ tform.params.rows = <<>>
        /\ ~tform.params.zero_division
        /\ tform.stage = "estimated"

C15_Witness ==
    /\ tform.stage = "estimated"
    /\ tform.src = [k \in 1..NumPoints |-> <<1, 1>>]
    /\ ~AllIdentical(tform.dst)
    /\ tform.success = FALSE

\* C16, as stated: when the source points are distinct and on one line, so
\* that A has rank dim - 1, SimilarityTransform.estimate reports the
\* correspondence as degenerate: it returns False.
C16_CollinearReportsFailure ==
    (/\ Estimated
     /\ PairwiseDistinct(tform.src)
     /\ Collinear(tform.src)
     /\ tform.params.rank = 1) =>
        tform.success = FALSE

\* C16, amended: when the source points are distinct and on one line and A
\* has rank dim - 1, SimilarityTransform.estimate returns True and params is
\* a similarity matrix of numbers with a non-zero linear block; estimate
\* returns False only when A has rank 0.
C16_CollinearIsEstimated ==
    /\ (/\ Estimated
        /\ PairwiseDistinct(tform.src)
        /\ Collinear(tform.src)
        /\ tform.params.rank = 1) =>
           /\ tform.success = TRUE
           /\ ~tform.params.nan
           /\ tform.params.rows[3] = <<RZero, RZero, ROne>>
           /\ tform.params.rows[1][1] = tform.params.rows[2][2]
           /\ tform.params.rows[1][2] = RNeg(tform.params.rows[2][1])
           /\ <<tform.params.rows[1][1], tform.params.rows[2][1]>> # <<RZero, RZero>>
    /\ Estimated => (tform.success = FALSE <=> tform.params.rank = 0)

C16_Witness ==
    /\ tform.stage = "estimated"
    /\ tform.src = <<<<0, 0>>, <<1, 0>>, <<2, 0>>, <<3, 0>>>>
    /\ tform.params.rank = 1
    /\ tform.success = TRUE

\* C17: for every correspondence that is not degenerate (A has full rank) and
\* on which estimate succeeds, the inverse of the transform exists and
\* tform.inverse(tform(src)) is src; mirror images of src among the
\* destinations included.
C17_RoundTrip ==
    (tform.stage = "inverted" /\ tform.success /\ tform.params.rank = 2) =>
        /\ tform.exc = "none"
        /\ tform.back = RatPoints(tform.src)

----------------------------------------------------------------------------
(* Properties of gui_optimize.py *)

----------------------------------------------------------------------------
(* Properties of the attendance post *)

(* the session ended accepted and its post did not succeed: no response, a
   response that is not JSON, or a status other than 200 *)
PostFailed ==
    /\ pc = "idle"
    /\ outcome = "ACCEPTED"
    /\ Len(posts) >= 1
    /\ msg # "success"

\* C20: when the post fails after an accepted session, the user is told of a
\* failure of the sink that is not the recognition failure, the recognized
\* name is still reported (as accepted, not sent), and post_attendance has
\* been called once and no more in the session.
C20_SinkFailureKeepsAccepted ==
    PostFailed =>
        /\ Len(posts) = 1
        /\ MessageText(msg).about # "recognition"
        /\ (exc # "none" \/ MessageText(msg).level = "error")
        /\ MessageText(msg).names

----------------------------------------------------------------------------
(* Properties of the session start and of the terminal outcomes *)

\* C21: when the capture device did not open at the start of a session, the
\* first step of the loop ends the session with an error (cv2.error, raised
\* for the frame that is missing); no frame is counted, no candidate is
\* computed, nothing is posted and the session ends neither accepted nor
\* timed out.
C21_UnopenedCaptureFailsAtOnce ==
    [][(pc = "loop" /\ cap = "unopened") =>
          /\ frame_count' = 0
          /\ email' = Unbound
          /\ recognized_name' = Unbound
          /\ posts' = <<>>
          /\ outcome' \notin {"ACCEPTED", "TIMEOUT_FAILED"}
          /\ LoopIteration => (pc' = "idle" /\ outcome' = "RAISED" /\ exc' = "cv2.error")]_vars

C21_Witness ==
    /\ cap = "unopened"
    /\ pc = "idle"
    /\ outcome = "RAISED"
    /\ exc = "cv2.error"
    /\ frame_count = 0
    /\ posts = <<>>

----------------------------------------------------------------------------
(* Properties of the gallery read by the matcher *)

(* the rows of the table that hold a vector, and those whose vector has a
   norm other than 0 *)
VecRows == {i \in 1..Len(matcher.table) : matcher.table[i].embedding.kind = "vec"}
SoundRows == {i \in VecRows : ~matcher.table[i].embedding.zero}

(* the identity that the rule of C11 and C12 gives on the similarities s of
   the rows ids, None for Unknown *)
ExpectedIdentity(s, ids) ==
    IF /\ Len(s) >= 1
       /\ Best(s) > THRESHOLD
       /\ (Len(s) = 1 \/ Best(s) - SecondBest(s) > MIN_SIMILARITY_DIFFERENCE)
    THEN ids[CHOOSE i \in 1..Len(s) : s[i] = Best(s)]
    ELSE None

RECURSIVE Ascending(_)
Ascending(S) ==
    IF S = {} THEN <<>>
    ELSE LET m == Min(S) IN <<m>> \o Ascending(S \ {m})

\* C22: a gallery embedding of norm 0 is not scored as a nan similarity, and
\* it does not change the result for a probe (of norm other than 0) whose
\* best match is another entry: the result is the one the other entries
\* give.
C22_ZeroNormEntryIsIgnored ==
    (/\ matcher.called
     /\ ~matcher.probe.zero
     /\ SoundRows # {}
     /\ VecRows # SoundRows) =>
        LET ids == Ascending(SoundRows)
            s == [k \in 1..Len(ids) |-> matcher.table[ids[k]].embedding.dot]
        IN  /\ \A k \in 1..Len(matcher.similarities) : matcher.similarities[k] # NaN
            /\ matcher.recognized.exc = "none"
            /\ matcher.recognized.val[1] = ExpectedIdentity(s, ids)

Pending(fn) == Cardinality({i \in 1..Len(test.timers) : test.timers[i].fn = fn})

C29_FlagsAndTimers ==
    /\ Pending("periodic_recognition") <= 1
    /\ Pending("turn_on_camera") <= 1
    /\ test.capture_enabled = ~test.wait_period

\* C29: in test.py at most one periodic_recognition and at most one
\* turn_on_camera callback are pending at any time, capture_enabled is False
\* exactly when wait_period is True, and no step taken while wait_period is
\* True reads a frame or changes input_emb.
C29_OneTimerEachAndNoReadInWait ==
    /\ []C29_FlagsAndTimers
    /\ [][test.wait_period =>
            /\ test'.frames = test.frames
            /\ test'.input_emb = test.input_emb]_vars

\* the wait period is on, its periodic_recognition timer has fired without
\* effect, and update_video has redisplayed the last frame
C29_Witness ==
    /\ test.stage = "mainloop"
    /\ test.wait_period
    /\ Pending("turn_on_camera") = 1
    /\ Pending("periodic_recognition") = 0
    /\ test.canvas = "last_frame"

\* C30: once turn_on_camera has re-enabled the capture, every compare of
\* periodic_recognition is on an embedding of a frame captured after that
\* re-enable, and the step of turn_on_camera leaves the capture enabled.
C30_RecognitionOnFreshFrame ==
    [][/\ (test'.reenabled /\ test'.compares # test.compares)
            => test'.compared.frame > test'.enabled_at
       /\ TurnOnCameraFires => test'.capture_enabled]_vars

(* the transform classes of similarity_transforms.py, by their type names *)
ImplementedTypes ==
    {<<"p", "r", "o", "j", "e", "c", "t", "i", "v", "e">>,
     <<"e", "u", "c", "l", "i", "d", "e", "a", "n">>,
     <<"s", "i", "m", "i", "l", "a", "r", "i", "t", "y">>}

\* C26: estimate_transform(ttype, src, dst) raises ValueError when the
\* lower-cased ttype is not an implemented type, and for an implemented type
\* returns a transform of that type.
C26_EstimateTransformByType ==
    tform.stage = "called" =>
        IF lower(tform.ttype) \in ImplementedTypes
        THEN tform.result.exc = "none"
        ELSE tform.result.exc = "ValueError"

\* C27: after every sequence of sidebar button presses stop is False exactly
\* when action is "check-in" or "check-out", so the sync branch (line 98) and
\* the loop branch (line 104) are never both enabled in one script run.
C27_StopIffSessionAction ==
    /\ ((stop = FALSE) <=> (action \in {"check-in", "check-out"}))
    /\ ~(SyncBranch(stop, action) /\ LoopBranch(stop, action))

\* a press of "Synchronize data from server" while a session was running
C27_Witness ==
    /\ action = "sync_data"
    /\ stop = TRUE
    /\ outcome = "CANCELLED"

\* C23: no decision state persists across sessions: a press of check-in or
\* check-out, whatever the script run before it was doing or how it ended,
\* starts a session with frame_count 0 (warm-up: its first frame is not
\* tracked), no candidate name or e-mail, no outcome and nothing posted.
C23_SessionStartsFresh ==
    [][(PressCheckIn \/ PressCheckOut)
       => /\ pc' = "loop"
          /\ frame_count' = 0
          /\ ~Tracked(frame_count' + 1)
          /\ email' = Unbound
          /\ recognized_name' = Unbound
          /\ recognized_email' = EmptyStr
          /\ outcome' = "NONE"
          /\ posts' = <<>>]_vars

\* a session that was started after an accepted one and has read no frame yet
C23_Witness ==
    /\ started_after = "ACCEPTED"
    /\ pc = "loop"
    /\ frame_count = 0
    /\ recognized_name = Unbound

Terminal == {"ACCEPTED", "TIMEOUT_FAILED"}

\* C24: terminal states are absorbing: once the loop has ended ACCEPTED or
\* TIMEOUT_FAILED no script run is in the loop, and until the operator presses
\* a session button nothing reads a frame, computes a candidate, posts a
\* record or changes the outcome; a press of Home or Synchronize only leaves
\* the page of the finished session, without running a loop.
C24_TerminalIsAbsorbing ==
    /\ [](outcome \in Terminal => pc = "idle")
    /\ [][(outcome \in Terminal) =>
            (\/ (PressCheckIn \/ PressCheckOut)
             \/ ((PressHome \/ PressSync)
                   /\ pc' = "idle" /\ outcome' = "NONE"
                   /\ frame_count' = 0 /\ posts' = <<>>
                   /\ recognized_name' = Unbound /\ email' = Unbound)
             \/ (UNCHANGED <<pc, cap, frame_count, email, recognized_name,
                             recognized_email, outcome, posts>>))]_vars

\* a session that timed out after the timeout frame, its capture released
C24_Witness ==
    /\ outcome = "TIMEOUT_FAILED"
    /\ pc = "idle"
    /\ frame_count > TIMEOUT_COUNT
    /\ cap = "released"

\* C25: acceptance happens only at the accept-check frame: a session whose
\* candidate at the frame with index ACCEPT_CHECK_FRAME is Unknown is not
\* accepted and posts nothing on the frames after it, and it keeps consuming
\* frames (the next frame, before TIMEOUT_FRAME, is read and counted and the
\* loop goes on) unless the capture fails.
C25_UnknownAtCheckFrameKeepsConsuming ==
    [][(LoopIteration /\ frame_count - 1 = ACCEPT_CHECK_FRAME
                      /\ recognized_name = Unknown)
       => /\ outcome' # "ACCEPTED"
          /\ posts' = <<>>
          /\ \/ exc' = "cv2.error"
             \/ (pc' = "loop" /\ frame_count' = frame_count + 1)]_vars

============================================================================
